---- MODULE Spec2Model ----
(***************************************************************************)
(* SpringSim: the useSimulation hook (requestAnimationFrame loop, React    *)
(* state, rolling graph buffer) and the numerical core it drives (RK4      *)
(* integrator, force model, energy evaluator).                             *)
(*                                                                         *)
(* Every quantity the program holds in a JavaScript number is held here as *)
(* an IEEE-754 binary64 value and every +, -, *, / of the source is the    *)
(* correctly rounded (round-to-nearest, ties-to-even) operation, so that   *)
(* accumulated times such as 6 * (1/60) are the values the program sees.   *)
(***************************************************************************)
EXTENDS Integers, Sequences, FiniteSets, TLC

(***************************************************************************)
(* Natural numbers of arbitrary size: little-endian sequences of 15-bit    *)
(* limbs without leading zero limbs (<<>> is 0).  They carry the 53-bit    *)
(* significands and the exact intermediate results of binary64 arithmetic. *)
(***************************************************************************)
Limb(a, i) == IF i >= 1 /\ i <= Len(a) THEN a[i] ELSE 0

RECURSIVE BTrim(_)
BTrim(a) ==
  IF a = <<>> THEN <<>>
  ELSE IF a[Len(a)] = 0 THEN BTrim(SubSeq(a, 1, Len(a) - 1)) ELSE a

RECURSIVE BFromNat(_)
BFromNat(n) == IF n = 0 THEN <<>> ELSE <<n % (2^15)>> \o BFromNat(n \div (2^15))

RECURSIVE BAddFrom(_, _, _, _)
BAddFrom(a, b, i, carry) ==
  IF i > Len(a) /\ i > Len(b)
  THEN (IF carry = 0 THEN <<>> ELSE <<carry>>)
  ELSE LET t == Limb(a, i) + Limb(b, i) + carry
       IN  <<t % (2^15)>> \o BAddFrom(a, b, i + 1, t \div (2^15))

BAdd(a, b) == BAddFrom(a, b, 1, 0)

\* a - b for a >= b
RECURSIVE BSubFrom(_, _, _, _)
BSubFrom(a, b, i, borrow) ==
  IF i > Len(a) THEN <<>>
  ELSE LET t == Limb(a, i) - Limb(b, i) - borrow
       IN  IF t < 0 THEN <<t + 2^15>> \o BSubFrom(a, b, i + 1, 1)
                    ELSE <<t>> \o BSubFrom(a, b, i + 1, 0)

BSub(a, b) == BTrim(BSubFrom(a, b, 1, 0))

\* a * k for 0 <= k <= 2^15
RECURSIVE BMulSmallFrom(_, _, _, _)
BMulSmallFrom(a, k, i, carry) ==
  IF i > Len(a)
  THEN (IF carry = 0 THEN <<>> ELSE <<carry>>)
  ELSE LET t == a[i] * k + carry
       IN  <<t % (2^15)>> \o BMulSmallFrom(a, k, i + 1, t \div (2^15))

BMulSmall(a, k) == IF k = 0 THEN <<>> ELSE BMulSmallFrom(a, k, 1, 0)

Zeros(n) == [i \in 1..n |-> 0]

RECURSIVE BMulFrom(_, _, _)
BMulFrom(a, b, i) ==
  IF i > Len(a) THEN <<>>
  ELSE LET row == BMulSmall(b, a[i])
           shifted == IF row = <<>> THEN <<>> ELSE Zeros(i - 1) \o row
       IN  BAdd(shifted, BMulFrom(a, b, i + 1))

BMul(a, b) == BMulFrom(a, b, 1)

\* -1, 0, 1 as a < b, a = b, a > b
RECURSIVE BCmpFrom(_, _, _)
BCmpFrom(a, b, i) ==
  IF i = 0 THEN 0
  ELSE IF a[i] < b[i] THEN -1
  ELSE IF a[i] > b[i] THEN 1
  ELSE BCmpFrom(a, b, i - 1)

BCmp(a, b) ==
  IF Len(a) < Len(b) THEN -1
  ELSE IF Len(a) > Len(b) THEN 1
  ELSE BCmpFrom(a, b, Len(a))

SmallBitLen(n) == IF n = 0 THEN 0 ELSE CHOOSE k \in 1..15 : 2^(k - 1) <= n /\ n < 2^k

BBitLen(a) == IF a = <<>> THEN 0 ELSE 15 * (Len(a) - 1) + SmallBitLen(a[Len(a)])

\* a * 2^n
BShl(a, n) ==
  IF a = <<>> THEN <<>>
  ELSE Zeros(n \div 15) \o BMulSmall(a, 2^(n % 15))

\* floor(a / 2^n)
BShr(a, n) ==
  LET q == n \div 15
      r == n % 15
      len == Len(a) - q
  IN  IF len <= 0 THEN <<>>
      ELSE BTrim([i \in 1..len |->
                   (a[i + q] \div (2^r)) + (Limb(a, i + q + 1) % (2^r)) * (2^(15 - r))])

\* bit n (0 is the least significant) of a
BBit(a, n) == (Limb(a, (n \div 15) + 1) \div (2^(n % 15))) % 2

\* the n low bits of a are all 0
BLowZero(a, n) ==
  /\ \A i \in 1..(n \div 15) : Limb(a, i) = 0
  /\ Limb(a, (n \div 15) + 1) % (2^(n % 15)) = 0

(***************************************************************************)
(* A JavaScript number: NaN, +-Infinity, zero, or sign * m * 2^e with a    *)
(* 53-bit significand m (2^52 <= m < 2^53).  The sign of zero is not kept: *)
(* no operation of the program tells -0 from 0.  Results below the normal  *)
(* range (2^-1022) are flushed to zero; none arises within the bounds.     *)
(***************************************************************************)
NaN == [c |-> "nan", s |-> 1, e |-> 0, m |-> <<>>]

Infinity(sign) == [c |-> "inf", s |-> sign, e |-> 0, m |-> <<>>]

Zero == [c |-> "zero", s |-> 1, e |-> 0, m |-> <<>>]

Range(sign, e, m) ==
  IF e + 52 > 1023 THEN Infinity(sign)
  ELSE IF e + 52 < -1022 THEN Zero
  ELSE [c |-> "num", s |-> sign, e |-> e, m |-> m]

\* The binary64 nearest (ties to even) to sign * (n + f) * 2^e, where n is a
\* natural number and 0 <= f < 1 with f > 0 iff sticky.
RoundPack(sign, n, e, sticky) ==
  LET len == BBitLen(n)
  IN  IF len = 0 THEN Zero
      ELSE IF len <= 53 THEN Range(sign, e - (53 - len), BShl(n, 53 - len))
      ELSE LET d == len - 53
               q == BShr(n, d)
               half == BBit(n, d - 1) = 1
               rest == sticky \/ ~BLowZero(n, d - 1)
               up == half /\ (rest \/ q[1] % 2 = 1)
               q1 == IF up THEN BAdd(q, <<1>>) ELSE q
           IN  IF BBitLen(q1) = 54
               THEN Range(sign, e + d + 1, BShr(q1, 1))
               ELSE Range(sign, e + d, q1)

FromInt(n) ==
  IF n = 0 THEN Zero
  ELSE IF n > 0 THEN RoundPack(1, BFromNat(n), 0, FALSE)
  ELSE RoundPack(-1, BFromNat(-n), 0, FALSE)

IsFinite(a) == a.c \in {"zero", "num"}

FNeg(a) == IF a.c \in {"num", "inf"} THEN [a EXCEPT !.s = -a.s] ELSE a

\* a + b
FAdd(a, b) ==
  IF a.c = "nan" \/ b.c = "nan" THEN NaN
  ELSE IF a.c = "inf" THEN (IF b.c = "inf" /\ b.s # a.s THEN NaN ELSE a)
  ELSE IF b.c = "inf" THEN b
  ELSE IF a.c = "zero" THEN b
  ELSE IF b.c = "zero" THEN a
  ELSE IF a.e - b.e > 60 THEN a
  ELSE IF b.e - a.e > 60 THEN b
  ELSE LET lo == IF a.e <= b.e THEN a.e ELSE b.e
           am == BShl(a.m, a.e - lo)
           bm == BShl(b.m, b.e - lo)
           cmp == BCmp(am, bm)
       IN  IF a.s = b.s THEN RoundPack(a.s, BAdd(am, bm), lo, FALSE)
           ELSE IF cmp = 0 THEN Zero
           ELSE IF cmp > 0 THEN RoundPack(a.s, BSub(am, bm), lo, FALSE)
           ELSE RoundPack(b.s, BSub(bm, am), lo, FALSE)

\* a - b
FSub(a, b) == FAdd(a, FNeg(b))

\* a * b
FMul(a, b) ==
  IF a.c = "nan" \/ b.c = "nan" THEN NaN
  ELSE IF a.c = "inf" \/ b.c = "inf"
       THEN (IF a.c = "zero" \/ b.c = "zero" THEN NaN ELSE Infinity(a.s * b.s))
  ELSE IF a.c = "zero" \/ b.c = "zero" THEN Zero
  ELSE RoundPack(a.s * b.s, BMul(a.m, b.m), a.e + b.e, FALSE)

\* Binary long division of r * 2^k by d, for r < d: <<quotient, remainder>>.
RECURSIVE DivBits(_, _, _)
DivBits(r, d, k) ==
  IF k = 1
  THEN LET r2 == BMulSmall(r, 2)
       IN  IF BCmp(r2, d) >= 0 THEN <<(<<1>>), BSub(r2, d)>> ELSE <<(<<>>), r2>>
  ELSE LET h == k \div 2
           hi == DivBits(r, d, h)
           lo == DivBits(hi[2], d, k - h)
       IN  <<BAdd(BShl(hi[1], k - h), lo[1]), lo[2]>>

\* a / b
FDiv(a, b) ==
  IF a.c = "nan" \/ b.c = "nan" THEN NaN
  ELSE IF a.c = "inf" THEN (IF b.c = "inf" THEN NaN ELSE Infinity(a.s * b.s))
  ELSE IF b.c = "inf" THEN Zero
  ELSE IF b.c = "zero" THEN (IF a.c = "zero" THEN NaN ELSE Infinity(a.s))
  ELSE IF a.c = "zero" THEN Zero
  ELSE IF b.m = <<0, 0, 0, 2^7>>
       THEN Range(a.s * b.s, a.e - b.e - 52, a.m)
  ELSE LET first == BCmp(a.m, b.m) >= 0
           r0 == IF first THEN BSub(a.m, b.m) ELSE a.m
           qr == DivBits(r0, b.m, 56)
           q == IF first THEN BAdd(BShl(<<1>>, 56), qr[1]) ELSE qr[1]
       IN  RoundPack(a.s * b.s, q, a.e - b.e - 56, qr[2] # <<>>)

\* the order of two numbers that are not NaN: -1, 0, 1
Rank(a) == IF a.c = "zero" THEN 0 ELSE a.s

MagCmp(a, b) ==
  IF a.c = "inf" THEN (IF b.c = "inf" THEN 0 ELSE 1)
  ELSE IF b.c = "inf" THEN -1
  ELSE IF a.e < b.e THEN -1
  ELSE IF a.e > b.e THEN 1
  ELSE BCmp(a.m, b.m)

FCmp(a, b) ==
  IF Rank(a) < Rank(b) THEN -1
  ELSE IF Rank(a) > Rank(b) THEN 1
  ELSE IF Rank(a) = 0 THEN 0
  ELSE Rank(a) * MagCmp(a, b)

\* a < b, a <= b, a >= b (false when either is NaN)
FLt(a, b) == a.c # "nan" /\ b.c # "nan" /\ FCmp(a, b) < 0

FLe(a, b) == a.c # "nan" /\ b.c # "nan" /\ FCmp(a, b) <= 0

FGe(a, b) == FLe(b, a)

(***************************************************************************)
(* lib/constants.ts                                                        *)
(***************************************************************************)
GRAPH_UPDATE_INTERVAL == 100

GRAPH_WINDOW_DURATION == 15

TIMESTEP == FDiv(FromInt(1), FromInt(60))

(***************************************************************************)
(* lib/integration.ts: force model, energy evaluator, RK4 step.            *)
(* A call that throws yields Thrown; callers test for it where the source  *)
(* would unwind.                                                           *)
(***************************************************************************)
Thrown == [c |-> "throw", s |-> 1, e |-> 0, m |-> <<>>]

IsThrown(a) == a.c = "throw"

computeSpringForce(displacement, springConstant) ==
  IF ~IsFinite(displacement) \/ ~IsFinite(springConstant) THEN Thrown
  ELSE FMul(FNeg(springConstant), displacement)

\* computeDampingForce as it would be if a negative coefficient were let through
computeDampingForceAnySign(velocity, dampingCoefficient) ==
  IF ~IsFinite(velocity) \/ ~IsFinite(dampingCoefficient) THEN Thrown
  ELSE FMul(FNeg(dampingCoefficient), velocity)

computeDampingForce(velocity, dampingCoefficient) ==
  IF ~IsFinite(velocity) \/ ~IsFinite(dampingCoefficient) THEN Thrown
  ELSE IF FLt(dampingCoefficient, Zero) THEN Thrown
  ELSE FMul(FNeg(dampingCoefficient), velocity)

\* a computeAcceleration that adds the gravitational acceleration
computeAccelerationWithGravity(force, mass) ==
  IF ~IsFinite(force) \/ ~IsFinite(mass) THEN Thrown
  ELSE IF FLe(mass, Zero) THEN Thrown
  ELSE FAdd(FDiv(force, mass), FDiv(FromInt(981), FromInt(100)))

computeAcceleration(force, mass) ==
  IF ~IsFinite(force) \/ ~IsFinite(mass) THEN Thrown
  ELSE IF FLe(mass, Zero) THEN Thrown
  ELSE FDiv(force, mass)

computeKineticEnergy(mass, velocity) ==
  IF ~IsFinite(mass) \/ ~IsFinite(velocity) THEN Thrown
  ELSE IF FLe(mass, Zero) THEN Thrown
  ELSE FMul(FMul(FMul(FDiv(FromInt(1), FromInt(2)), mass), velocity), velocity)

\* computePotentialEnergy as it would be with the displacement not squared
computePotentialEnergyLinear(springConstant, displacement) ==
  IF ~IsFinite(springConstant) \/ ~IsFinite(displacement) THEN Thrown
  ELSE IF FLe(springConstant, Zero) THEN Thrown
  ELSE FMul(FMul(FDiv(FromInt(1), FromInt(2)), springConstant), displacement)

computePotentialEnergy(springConstant, displacement) ==
  IF ~IsFinite(springConstant) \/ ~IsFinite(displacement) THEN Thrown
  ELSE IF FLe(springConstant, Zero) THEN Thrown
  ELSE FMul(FMul(FMul(FDiv(FromInt(1), FromInt(2)), springConstant), displacement),
            displacement)

computeTotalEnergy(mass, velocity, springConstant, displacement) ==
  LET kineticEnergy == computeKineticEnergy(mass, velocity)
  IN  IF IsThrown(kineticEnergy) THEN Thrown
      ELSE LET potentialEnergy == computePotentialEnergy(springConstant, displacement)
           IN  IF IsThrown(potentialEnergy) THEN Thrown
               ELSE FAdd(kineticEnergy, potentialEnergy)

\* usePhysicsEngine.ts: the acceleration function closed over the parameters,
\* defined here because rk4Step calls it
computeAccelerationFromState(parameters, position, velocity) ==
  LET springForce == computeSpringForce(position, parameters.springConstant)
  IN  IF IsThrown(springForce) THEN Thrown
      ELSE LET dampingForce == computeDampingForce(velocity, parameters.dampingCoefficient)
           IN  IF IsThrown(dampingForce) THEN Thrown
               ELSE computeAcceleration(FAdd(springForce, dampingForce), parameters.mass)

\* the function value usePhysicsEngine hands to rk4Step, and a call of it
Closure(parameters) == [parameters |-> parameters]

Call(accelerationFunc, position, velocity) ==
  computeAccelerationFromState(accelerationFunc.parameters, position, velocity)

\* the result of a step that threw after so many calls of accelerationFunc
StepThrown(calls) == [ok |-> FALSE, position |-> NaN, velocity |-> NaN, calls |-> calls]

\* rk4Step, from the weighted average of the slopes to the final validation
rk4Final(x, v, dt, dx, dv, newPosition, newVelocity) ==
  IF ~IsFinite(newPosition) \/ ~IsFinite(newVelocity) THEN StepThrown(4)
  ELSE [ok |-> TRUE, position |-> newPosition, velocity |-> newVelocity, calls |-> 4]

rk4Average(x, v, dt, dx, dv) ==
  rk4Final(x, v, dt, dx, dv, FAdd(x, FMul(dx, dt)), FAdd(v, FMul(dv, dt)))

\* rk4Step, from the check of k4, as it would be with the four slopes
\* weighted equally
rk4K4EqualWeights(x, v, dt, k1_dx, k1_dv, k2_dx, k2_dv, k3_dx, k3_dv, k4_dx, k4_dv) ==
  IF IsThrown(k4_dv) \/ ~IsFinite(k4_dv) THEN StepThrown(4)
  ELSE rk4Average(x, v, dt,
         FDiv(FAdd(FAdd(FAdd(k1_dx, k2_dx), k3_dx), k4_dx), FromInt(4)),
         FDiv(FAdd(FAdd(FAdd(k1_dv, k2_dv), k3_dv), k4_dv), FromInt(4)))

\* rk4Step, from the check of k4
rk4K4(x, v, dt, k1_dx, k1_dv, k2_dx, k2_dv, k3_dx, k3_dv, k4_dx, k4_dv) ==
  IF IsThrown(k4_dv) \/ ~IsFinite(k4_dv) THEN StepThrown(4)
  ELSE rk4Average(x, v, dt,
         FDiv(FAdd(FAdd(FAdd(k1_dx, FMul(FromInt(2), k2_dx)), FMul(FromInt(2), k3_dx)),
                   k4_dx), FromInt(6)),
         FDiv(FAdd(FAdd(FAdd(k1_dv, FMul(FromInt(2), k2_dv)), FMul(FromInt(2), k3_dv)),
                   k4_dv), FromInt(6)))

\* rk4Step, from the check of k3, as it would be if the slopes were validated
\* only after all four had been evaluated
rk4K3ValidatesLate(x, v, dt, k1_dx, k1_dv, k2_dx, k2_dv, k3_dx, k3_dv, accelerationFunc) ==
  IF IsThrown(k3_dv) \/ ~IsFinite(k3_dv) THEN StepThrown(4)
  ELSE rk4K4(x, v, dt, k1_dx, k1_dv, k2_dx, k2_dv, k3_dx, k3_dv,
             FAdd(v, FMul(k3_dv, dt)),
             Call(accelerationFunc, FAdd(x, FMul(k3_dx, dt)), FAdd(v, FMul(k3_dv, dt))))

\* rk4Step, from the check of k3
rk4K3(x, v, dt, k1_dx, k1_dv, k2_dx, k2_dv, k3_dx, k3_dv, accelerationFunc) ==
  IF IsThrown(k3_dv) \/ ~IsFinite(k3_dv) THEN StepThrown(3)
  ELSE rk4K4(x, v, dt, k1_dx, k1_dv, k2_dx, k2_dv, k3_dx, k3_dv,
             FAdd(v, FMul(k3_dv, dt)),
             Call(accelerationFunc, FAdd(x, FMul(k3_dx, dt)), FAdd(v, FMul(k3_dv, dt))))

\* rk4Step, from the check of k2
rk4K2(x, v, dt, k1_dx, k1_dv, k2_dx, k2_dv, accelerationFunc) ==
  IF IsThrown(k2_dv) \/ ~IsFinite(k2_dv) THEN StepThrown(2)
  ELSE rk4K3(x, v, dt, k1_dx, k1_dv, k2_dx, k2_dv,
             FAdd(v, FDiv(FMul(k2_dv, dt), FromInt(2))),
             Call(accelerationFunc, FAdd(x, FDiv(FMul(k2_dx, dt), FromInt(2))),
                  FAdd(v, FDiv(FMul(k2_dv, dt), FromInt(2)))),
             accelerationFunc)

\* rk4Step, from the check of k1
rk4K1(x, v, dt, k1_dx, k1_dv, accelerationFunc) ==
  IF IsThrown(k1_dv) \/ ~IsFinite(k1_dv) THEN StepThrown(1)
  ELSE rk4K2(x, v, dt, k1_dx, k1_dv,
             FAdd(v, FDiv(FMul(k1_dv, dt), FromInt(2))),
             Call(accelerationFunc, FAdd(x, FDiv(FMul(k1_dx, dt), FromInt(2))),
                  FAdd(v, FDiv(FMul(k1_dv, dt), FromInt(2)))),
             accelerationFunc)

rk4Step(state, dt, accelerationFunc) ==
  IF ~IsFinite(state.position) \/ ~IsFinite(state.velocity) \/ ~IsFinite(dt)
  THEN StepThrown(0)
  ELSE rk4K1(state.position, state.velocity, dt, state.velocity,
             Call(accelerationFunc, state.position, state.velocity), accelerationFunc)

(***************************************************************************)
(* hooks/usePhysicsEngine.ts: the functions closed over the parameters.    *)
(***************************************************************************)
\* the result of a computeNextState call that threw
NextThrown == [ok |-> FALSE, position |-> NaN, velocity |-> NaN, acceleration |-> NaN]

\* computeNextState, from the acceleration at the new state
WithAcceleration(next, acceleration) ==
  IF IsThrown(acceleration) THEN NextThrown
  ELSE [ok |-> TRUE, position |-> next.position, velocity |-> next.velocity,
        acceleration |-> acceleration]

\* computeNextState, from the result of rk4Step
AfterStep(parameters, next) ==
  IF ~next.ok THEN NextThrown
  ELSE WithAcceleration(next,
         computeAccelerationFromState(parameters, next.position, next.velocity))

\* a computeNextState that reports the acceleration at the state it started from
computeNextStateOldAcceleration(parameters, currentState, dt) ==
  IF ~rk4Step([position |-> currentState.position, velocity |-> currentState.velocity],
              dt, Closure(parameters)).ok
  THEN NextThrown
  ELSE WithAcceleration(
         rk4Step([position |-> currentState.position, velocity |-> currentState.velocity],
                 dt, Closure(parameters)),
         computeAccelerationFromState(parameters, currentState.position,
                                      currentState.velocity))

computeNextState(parameters, currentState, dt) ==
  AfterStep(parameters,
            rk4Step([position |-> currentState.position,
                     velocity |-> currentState.velocity], dt, Closure(parameters)))

computeEnergy(parameters, position, velocity) ==
  computeTotalEnergy(parameters.mass, velocity, parameters.springConstant, position)

(***************************************************************************)
(* Bounds of the model.                                                    *)
(***************************************************************************)
\* physics steps of a run explored under Spec (every interleaving)
MaxSteps == 7

\* physics steps of a run explored under SpecRun (frames paced by renders)
MaxRunSteps == 14

\* physics steps of a run explored under SpecLong (one uninterrupted run, 16 s)
MaxLongSteps == 960

\* state updates that may wait for one React render
MaxPending == 2

\* physics steps of a run explored under SpecRestart (start() before each frame)
MaxRestartSteps == 160

\* steps of that run during which frames may run before React has rendered
MaxStaleSteps == 8

\* state updates that may wait for one React render under SpecRestart
MaxRestartPending == 3

\* physics steps of a run explored under SpecParameters (parameters may change)
MaxParameterSteps == 3

\* physics steps of a run explored under SpecHost (frames at uneven intervals)
MaxHostSteps == 8

(***************************************************************************)
(* hooks/useSimulation.ts and hooks/useGraphData.ts.                       *)
(*                                                                         *)
(* React state is committed by a render: setState only queues an update,   *)
(* and the queued updates of all hooks are applied, in call order, when    *)
(* React next renders the component; the effects of that render (the sync  *)
(* of stateRef, the RAF effect) run with the commit.  Refs are written at  *)
(* once.  A requestAnimationFrame callback is a browser task of its own    *)
(* and may run at any time between a setState call and the render.         *)
(*                                                                         *)
(* Not modelled: lockedYDomains (axis ranges for display, read by no       *)
(* operation below).                                                       *)
(***************************************************************************)
VARIABLES
  parameters,         \* the hook's argument at the last render
  state,              \* useState<SimulationState>: the committed value
  stateQueue,         \* setState calls waiting for the next render
  stateRef,           \* stateRef.current
  timeSeriesData,     \* useGraphData: the committed value
  dataQueue,          \* setTimeSeriesData calls waiting for the next render
  rafIdRef,           \* rafIdRef.current, 0 for null
  rafs,               \* handles of the animation frames requested and not yet run
  lastDataUpdateRef,  \* lastDataUpdateRef.current
  lastFrameTimeRef,   \* lastFrameTimeRef.current, ms
  now,                \* the host's clock, ms: performance.now() and the frames' timestamps
  shadow,             \* SpecRun only: the same run had pause() and resume() not been called
  probe               \* SpecPhysics only: a call of a library function and its result

vars == <<parameters, state, stateQueue, stateRef, timeSeriesData, dataQueue,
          rafIdRef, rafs, lastDataUpdateRef, lastFrameTimeRef, now, shadow,
          probe>>

\* App.tsx: the default parameters, and the undamped system of the concrete scenario
DefaultParameters ==
  [mass |-> FromInt(10), springConstant |-> FromInt(100),
   dampingCoefficient |-> FDiv(FromInt(1), FromInt(2))]

UndampedParameters ==
  [mass |-> FromInt(1), springConstant |-> FromInt(10), dampingCoefficient |-> Zero]

ParameterValues == {DefaultParameters, UndampedParameters}

\* displacements the drag handler passes: 0.5 m, and a non-finite value
DisplacementValues == {FDiv(FromInt(1), FromInt(2)), Infinity(1)}

InitialState ==
  [position |-> Zero, velocity |-> Zero, acceleration |-> Zero, time |-> Zero,
   isRunning |-> FALSE, isPaused |-> FALSE]

EmptyData ==
  [displacement |-> <<>>, velocity |-> <<>>, acceleration |-> <<>>, totalEnergy |-> <<>>]

\* ---- the state updaters handed to setState ----
SetTo(s) == [kind |-> "set", arg |-> s]

Displace(displacement) == [kind |-> "displace", arg |-> displacement]

StartUpdate == [kind |-> "start", arg |-> Zero]

PauseUpdate == [kind |-> "pause", arg |-> Zero]

ResumeUpdate == [kind |-> "resume", arg |-> Zero]

\* a setInitialDisplacement updater that is ignored while the run is active
ApplyUpdateStoppedOnly(prev, u) ==
  CASE u.kind = "set" -> u.arg
    [] u.kind = "displace" ->
         IF prev.isRunning /\ ~prev.isPaused THEN prev
         ELSE [prev EXCEPT !.position = u.arg, !.velocity = Zero, !.acceleration = Zero]
    [] u.kind = "start" -> [prev EXCEPT !.isRunning = TRUE, !.isPaused = FALSE]
    [] u.kind = "pause" -> [prev EXCEPT !.isPaused = TRUE]
    [] u.kind = "resume" -> [prev EXCEPT !.isPaused = FALSE]

\* a start updater that restarts the clock
ApplyUpdateStartRewinds(prev, u) ==
  CASE u.kind = "set" -> u.arg
    [] u.kind = "displace" ->
         [prev EXCEPT !.position = u.arg, !.velocity = Zero, !.acceleration = Zero]
    [] u.kind = "start" -> [prev EXCEPT !.isRunning = TRUE, !.isPaused = FALSE, !.time = Zero]
    [] u.kind = "pause" -> [prev EXCEPT !.isPaused = TRUE]
    [] u.kind = "resume" -> [prev EXCEPT !.isPaused = FALSE]

\* a start updater that puts the mass back at rest at the equilibrium
ApplyUpdateStartRecentres(prev, u) ==
  CASE u.kind = "set" -> u.arg
    [] u.kind = "displace" ->
         [prev EXCEPT !.position = u.arg, !.velocity = Zero, !.acceleration = Zero]
    [] u.kind = "start" ->
         [prev EXCEPT !.isRunning = TRUE, !.isPaused = FALSE, !.position = Zero,
                      !.velocity = Zero, !.acceleration = Zero]
    [] u.kind = "pause" -> [prev EXCEPT !.isPaused = TRUE]
    [] u.kind = "resume" -> [prev EXCEPT !.isPaused = FALSE]

ApplyUpdate(prev, u) ==
  CASE u.kind = "set" -> u.arg
    [] u.kind = "displace" ->
         [prev EXCEPT !.position = u.arg, !.velocity = Zero, !.acceleration = Zero]
    [] u.kind = "start" -> [prev EXCEPT !.isRunning = TRUE, !.isPaused = FALSE]
    [] u.kind = "pause" -> [prev EXCEPT !.isPaused = TRUE]
    [] u.kind = "resume" -> [prev EXCEPT !.isPaused = FALSE]

RECURSIVE ApplyAll(_, _)
ApplyAll(prev, queue) ==
  IF queue = <<>> THEN prev ELSE ApplyAll(ApplyUpdate(prev, Head(queue)), Tail(queue))

\* ---- useGraphData ----
AddPoint(time, displacement, velocity, acceleration, totalEnergy) ==
  [kind |-> "add", time |-> time, displacement |-> displacement, velocity |-> velocity,
   acceleration |-> acceleration, totalEnergy |-> totalEnergy]

ClearPoints ==
  [kind |-> "clear", time |-> Zero, displacement |-> Zero, velocity |-> Zero,
   acceleration |-> Zero, totalEnergy |-> Zero]

\* a pruneAndAdd that never evicts
pruneAndAddKeepsAll(data, time, value) ==
  data \o <<[time |-> time, value |-> value]>>

pruneAndAdd(data, time, value) ==
  LET cutoffTime == FSub(time, FromInt(GRAPH_WINDOW_DURATION))
      Keep(point) == FGe(point.time, cutoffTime)
  IN  SelectSeq(data, Keep) \o <<[time |-> time, value |-> value]>>

\* an addDataPoint that never evicts from the acceleration channel
addDataPointKeepsAcceleration(prev, u) ==
  [displacement |-> pruneAndAdd(prev.displacement, u.time, u.displacement),
   velocity |-> pruneAndAdd(prev.velocity, u.time, u.velocity),
   acceleration |-> pruneAndAddKeepsAll(prev.acceleration, u.time, u.acceleration),
   totalEnergy |-> pruneAndAdd(prev.totalEnergy, u.time, u.totalEnergy)]

addDataPoint(prev, u) ==
  [displacement |-> pruneAndAdd(prev.displacement, u.time, u.displacement),
   velocity |-> pruneAndAdd(prev.velocity, u.time, u.velocity),
   acceleration |-> pruneAndAdd(prev.acceleration, u.time, u.acceleration),
   totalEnergy |-> pruneAndAdd(prev.totalEnergy, u.time, u.totalEnergy)]

clearData == EmptyData

ApplyData(prev, u) == IF u.kind = "add" THEN addDataPoint(prev, u) ELSE clearData

RECURSIVE ApplyAllData(_, _)
ApplyAllData(prev, queue) ==
  IF queue = <<>> THEN prev
  ELSE ApplyAllData(ApplyData(prev, Head(queue)), Tail(queue))

\* ---- what the next render will commit ----
Pending == ApplyAll(state, stateQueue)

PendingData == ApplyAllData(timeSeriesData, dataQueue)

\* the setState calls one batch may hold
Room == Len(stateQueue) < MaxPending

\* the run a shadow starts from
InitialRun ==
  [position |-> Zero, velocity |-> Zero, acceleration |-> Zero, time |-> Zero,
   data |-> EmptyData, last |-> Zero, resumedAt |-> Zero, failed |-> FALSE]

\* no library function is being probed
NoCall == [fn |-> "none"]

Init ==
  /\ parameters = DefaultParameters
  /\ state = InitialState
  /\ stateQueue = <<>>
  /\ stateRef = InitialState
  /\ timeSeriesData = EmptyData
  /\ dataQueue = <<>>
  /\ rafIdRef = 0
  /\ rafs = {}
  /\ lastDataUpdateRef = Zero
  /\ lastFrameTimeRef = 0
  /\ now = 0
  /\ shadow = InitialRun
  /\ probe = NoCall

setInitialDisplacement(displacement) ==
  /\ Room
  /\ stateQueue' = Append(stateQueue, Displace(displacement))
  /\ UNCHANGED <<parameters, state, stateRef, timeSeriesData, dataQueue, rafIdRef, rafs,
                 lastDataUpdateRef, lastFrameTimeRef>>

start ==
  /\ Room
  /\ stateQueue' = Append(stateQueue, StartUpdate)
  /\ lastDataUpdateRef' = Zero
  /\ lastFrameTimeRef' = now
  /\ UNCHANGED <<parameters, state, stateRef, timeSeriesData, dataQueue, rafIdRef, rafs>>

pause ==
  /\ Room
  /\ stateQueue' = Append(stateQueue, PauseUpdate)
  /\ UNCHANGED <<parameters, state, stateRef, timeSeriesData, dataQueue, rafIdRef, rafs,
                 lastDataUpdateRef, lastFrameTimeRef>>

\* a resume that restarts the sampling clock, as start does
resumeRestartsSampling ==
  /\ Room
  /\ stateQueue' = Append(stateQueue, ResumeUpdate)
  /\ lastDataUpdateRef' = Zero
  /\ lastFrameTimeRef' = now
  /\ UNCHANGED <<parameters, state, stateRef, timeSeriesData, dataQueue, rafIdRef, rafs>>

resume ==
  /\ Room
  /\ stateQueue' = Append(stateQueue, ResumeUpdate)
  /\ lastFrameTimeRef' = now
  /\ UNCHANGED <<parameters, state, stateRef, timeSeriesData, dataQueue, rafIdRef, rafs,
                 lastDataUpdateRef>>

\* a reset that forgets clearData()
resetKeepsData ==
  /\ Room
  /\ stateQueue' = Append(stateQueue, SetTo(InitialState))
  /\ rafs' = IF rafIdRef # 0 THEN rafs \ {rafIdRef} ELSE rafs
  /\ rafIdRef' = 0
  /\ UNCHANGED <<parameters, state, stateRef, timeSeriesData, dataQueue, lastDataUpdateRef,
                 lastFrameTimeRef>>

\* a reset that forgets cancelAnimationFrame()
resetKeepsFrame ==
  /\ Room
  /\ stateQueue' = Append(stateQueue, SetTo(InitialState))
  /\ dataQueue' = Append(dataQueue, ClearPoints)
  /\ UNCHANGED <<parameters, state, stateRef, timeSeriesData, rafIdRef, rafs,
                 lastDataUpdateRef, lastFrameTimeRef>>

\* a reset that leaves the elapsed time where it was
resetKeepsTime ==
  /\ Room
  /\ stateQueue' = Append(stateQueue, SetTo([InitialState EXCEPT !.time = Pending.time]))
  /\ dataQueue' = Append(dataQueue, ClearPoints)
  /\ rafs' = IF rafIdRef # 0 THEN rafs \ {rafIdRef} ELSE rafs
  /\ rafIdRef' = 0
  /\ UNCHANGED <<parameters, state, stateRef, timeSeriesData, lastDataUpdateRef,
                 lastFrameTimeRef>>

reset ==
  /\ Room
  /\ stateQueue' = Append(stateQueue, SetTo(InitialState))
  /\ dataQueue' = Append(dataQueue, ClearPoints)
  /\ rafs' = IF rafIdRef # 0 THEN rafs \ {rafIdRef} ELSE rafs
  /\ rafIdRef' = 0
  /\ UNCHANGED <<parameters, state, stateRef, timeSeriesData, lastDataUpdateRef,
                 lastFrameTimeRef>>

\* animate: rafIdRef.current = requestAnimationFrame(animate)
Schedule(id) ==
  LET fired == rafs \ {id}
      handle == CHOOSE h \in 1..(Cardinality(fired) + 2) : h \notin fired /\ h # rafIdRef
  IN  /\ rafIdRef' = handle
      /\ rafs' = fired \cup {handle}

\* a catch block that pauses and still requests the next frame
CaughtReschedules(id, queue) ==
  /\ stateQueue' = Append(queue, PauseUpdate)
  /\ Schedule(id)
  /\ UNCHANGED <<dataQueue, lastDataUpdateRef>>

\* animate: catch (error) { setState((prev) => ({ ...prev, isPaused: true })) },
\* entered with the state updates queued so far
Caught(id, queue) ==
  /\ stateQueue' = Append(queue, PauseUpdate)
  /\ rafs' = rafs \ {id}
  /\ UNCHANGED <<dataQueue, rafIdRef, lastDataUpdateRef>>

\* animate: the object handed to setState
NewState(nextState, newTime) ==
  [position |-> nextState.position, velocity |-> nextState.velocity,
   acceleration |-> nextState.acceleration, time |-> newTime,
   isRunning |-> TRUE, isPaused |-> FALSE]

\* animate: the graph update that is due, once computeTotalEnergy has been called
Sample(id, nextState, newTime, energy) ==
  IF IsThrown(energy)
  THEN Caught(id, Append(stateQueue, SetTo(NewState(nextState, newTime))))
  ELSE /\ stateQueue' = Append(stateQueue, SetTo(NewState(nextState, newTime)))
       /\ dataQueue' = Append(dataQueue,
                              AddPoint(newTime, nextState.position, nextState.velocity,
                                       nextState.acceleration, energy))
       /\ lastDataUpdateRef' = newTime
       /\ Schedule(id)

\* animate: the try block, once computeNextState has been called
Advance(id, nextState, newTime) ==
  IF ~nextState.ok THEN Caught(id, stateQueue)
  ELSE IF FGe(FMul(FSub(newTime, lastDataUpdateRef), FromInt(1000)),
              FromInt(GRAPH_UPDATE_INTERVAL))
  THEN Sample(id, nextState, newTime,
              computeEnergy(parameters, nextState.position, nextState.velocity))
  ELSE /\ stateQueue' = Append(stateQueue, SetTo(NewState(nextState, newTime)))
       /\ UNCHANGED <<dataQueue, lastDataUpdateRef>>
       /\ Schedule(id)

\* an animate that steps by the time the host let pass since the last frame
animateWallClock(id) ==
  /\ id \in rafs
  /\ IF ~stateRef.isRunning \/ stateRef.isPaused
     THEN /\ rafs' = rafs \ {id}
          /\ UNCHANGED <<stateQueue, dataQueue, rafIdRef, lastDataUpdateRef>>
     ELSE Advance(id,
                  computeNextState(parameters, stateRef, FDiv(FromInt(now' - now), FromInt(1000))),
                  FAdd(stateRef.time, FDiv(FromInt(now' - now), FromInt(1000))))
  /\ UNCHANGED <<parameters, state, stateRef, timeSeriesData, lastFrameTimeRef>>

\* The animation frame with handle id runs animate; its argument, the frame's
\* timestamp now', is not used.
animate(id) ==
  /\ id \in rafs
  /\ IF ~stateRef.isRunning \/ stateRef.isPaused
     THEN /\ rafs' = rafs \ {id}
          /\ UNCHANGED <<stateQueue, dataQueue, rafIdRef, lastDataUpdateRef>>
     ELSE Advance(id, computeNextState(parameters, stateRef, TIMESTEP),
                  FAdd(stateRef.time, TIMESTEP))
  /\ UNCHANGED <<parameters, state, stateRef, timeSeriesData, lastFrameTimeRef>>

\* a render whose RAF effect cleanup forgets cancelAnimationFrame()
CommitKeepsFrame(newParameters) ==
  LET newState == Pending
      \* the RAF effect's dependencies: state.isRunning, state.isPaused, and the
      \* memoised physics functions, which change with mass, k or c
      depsChanged == \/ newState.isRunning # state.isRunning
                     \/ newState.isPaused # state.isPaused
                     \/ newParameters # parameters
      \* the effect's last run returned a cleanup iff it requested a frame
      hadCleanup == state.isRunning /\ ~state.isPaused
      \* cleanup: cancelAnimationFrame(rafIdRef.current); rafIdRef.current = null
      cancelled == rafs
      cleared == IF hadCleanup THEN 0 ELSE rafIdRef
      active == newState.isRunning /\ ~newState.isPaused
      handle == CHOOSE h \in 1..(Cardinality(cancelled) + 2) : h \notin cancelled /\ h # cleared
  IN
  /\ parameters' = newParameters
  /\ state' = newState
  /\ stateQueue' = <<>>
  /\ stateRef' = newState
  /\ timeSeriesData' = PendingData
  /\ dataQueue' = <<>>
  /\ IF ~depsChanged THEN UNCHANGED <<rafIdRef, rafs>>
     ELSE IF active THEN rafIdRef' = handle /\ rafs' = cancelled \cup {handle}
     ELSE rafIdRef' = cleared /\ rafs' = cancelled
  /\ UNCHANGED <<lastDataUpdateRef, lastFrameTimeRef>>

\* One React render of the component with the given parameters, and its effects.
Commit(newParameters) ==
  LET newState == Pending
      \* the RAF effect's dependencies: state.isRunning, state.isPaused, and the
      \* memoised physics functions, which change with mass, k or c
      depsChanged == \/ newState.isRunning # state.isRunning
                     \/ newState.isPaused # state.isPaused
                     \/ newParameters # parameters
      \* the effect's last run returned a cleanup iff it requested a frame
      hadCleanup == state.isRunning /\ ~state.isPaused
      \* cleanup: cancelAnimationFrame(rafIdRef.current); rafIdRef.current = null
      cancelled == IF hadCleanup /\ rafIdRef # 0 THEN rafs \ {rafIdRef} ELSE rafs
      cleared == IF hadCleanup THEN 0 ELSE rafIdRef
      active == newState.isRunning /\ ~newState.isPaused
      handle == CHOOSE h \in 1..(Cardinality(cancelled) + 2) : h \notin cancelled /\ h # cleared
  IN
  /\ parameters' = newParameters
  /\ state' = newState
  /\ stateQueue' = <<>>
  /\ stateRef' = newState
  /\ timeSeriesData' = PendingData
  /\ dataQueue' = <<>>
  /\ IF ~depsChanged THEN UNCHANGED <<rafIdRef, rafs>>
     ELSE IF active THEN rafIdRef' = handle /\ rafs' = cancelled \cup {handle}
     ELSE rafIdRef' = cleared /\ rafs' = cancelled
  /\ UNCHANGED <<lastDataUpdateRef, lastFrameTimeRef>>

\* React renders because state updates are pending.
Render ==
  /\ stateQueue # <<>> \/ dataQueue # <<>>
  /\ Commit(parameters)

\* The host renders the component with other parameters.
ParametersChange ==
  \E p \in ParameterValues : p # parameters /\ Commit(p)

\* the frame may run while the run is within the explored horizon
WithinSteps(n) == FLt(stateRef.time, FMul(FromInt(n), TIMESTEP))

\* The browser runs a requested animation frame, at any time.
Frame == \E id \in rafs : Room /\ WithinSteps(MaxSteps) /\ animate(id)

\* The browser runs a requested animation frame once React has rendered.
PacedFrame(n) ==
  /\ stateQueue = <<>>
  /\ dataQueue = <<>>
  /\ \E id \in rafs : WithinSteps(n) /\ animate(id)

(***************************************************************************)
(* Spec: the hook under every interleaving of its operations, the renders  *)
(* and the animation frames.                                               *)
(***************************************************************************)
Next ==
  \/ (\E x \in DisplacementValues : setInitialDisplacement(x)) /\ UNCHANGED <<shadow, now, probe>>
  \/ start /\ UNCHANGED <<shadow, now, probe>>
  \/ pause /\ UNCHANGED <<shadow, now, probe>>
  \/ resume /\ UNCHANGED <<shadow, now, probe>>
  \/ reset /\ UNCHANGED <<shadow, now, probe>>
  \/ Frame /\ UNCHANGED <<shadow, now, probe>>
  \/ Render /\ UNCHANGED <<shadow, now, probe>>

Spec == Init /\ [][Next]_vars

(***************************************************************************)
(* SpecRun: the hook driven as the page drives it, on a host that renders  *)
(* before it runs the next animation frame: the mass is dragged and the    *)
(* run started while Stopped, then paused and resumed at any time.  shadow *)
(* is the run that receives the same operations and the same number of     *)
(* frames, except pause() and resume().                                    *)
(***************************************************************************)
\* animate's graph update, on the shadow run
ShadowSample(run, nextState, newTime) ==
  IF FGe(FMul(FSub(newTime, run.last), FromInt(1000)), FromInt(GRAPH_UPDATE_INTERVAL))
  THEN [run EXCEPT !.position = nextState.position, !.velocity = nextState.velocity,
                   !.acceleration = nextState.acceleration, !.time = newTime,
                   !.data = addDataPoint(run.data,
                              AddPoint(newTime, nextState.position, nextState.velocity,
                                       nextState.acceleration,
                                       computeEnergy(parameters, nextState.position,
                                                     nextState.velocity))),
                   !.last = newTime]
  ELSE [run EXCEPT !.position = nextState.position, !.velocity = nextState.velocity,
                   !.acceleration = nextState.acceleration, !.time = newTime]

\* animate's try block, on the shadow run
ShadowAdvance(run, nextState) ==
  IF ~nextState.ok THEN run ELSE ShadowSample(run, nextState, FAdd(run.time, TIMESTEP))

\* one frame of the shadow run
ShadowTick(run) == ShadowAdvance(run, computeNextState(parameters, run, TIMESTEP))

RunDisplace ==
  \E x \in DisplacementValues :
    /\ ~Pending.isRunning
    /\ setInitialDisplacement(x)
    /\ shadow' = [shadow EXCEPT !.position = x, !.velocity = Zero, !.acceleration = Zero]
    /\ UNCHANGED <<now, probe>>

RunStart ==
  /\ ~Pending.isRunning
  /\ start
  /\ shadow' = [shadow EXCEPT !.last = Zero]
  /\ UNCHANGED <<now, probe>>

RunPause == pause /\ UNCHANGED <<shadow, now, probe>>

RunResume ==
  /\ resume
  /\ shadow' = IF Pending.isRunning /\ Pending.isPaused
               THEN [shadow EXCEPT !.resumedAt = Pending.time] ELSE shadow
  /\ UNCHANGED <<now, probe>>

RunFrame ==
  /\ PacedFrame(MaxRunSteps)
  /\ shadow' = IF stateRef.isRunning /\ ~stateRef.isPaused THEN ShadowTick(shadow)
               ELSE shadow
  /\ UNCHANGED <<now, probe>>

RunRender == Render /\ UNCHANGED <<shadow, now, probe>>

NextRun == RunDisplace \/ RunStart \/ RunPause \/ RunResume \/ RunFrame \/ RunRender

SpecRun == Init /\ [][NextRun]_vars

(***************************************************************************)
(* SpecLong: one uninterrupted run of 16 s of simulated time, from rest or *)
(* from a displaced mass, on a host that renders before the next frame.    *)
(***************************************************************************)
LongDisplace ==
  /\ Pending = InitialState
  /\ stateQueue = <<>>
  /\ setInitialDisplacement(FDiv(FromInt(1), FromInt(2)))
  /\ UNCHANGED <<shadow, now, probe>>

LongStart == ~Pending.isRunning /\ start /\ UNCHANGED <<shadow, now, probe>>

LongFrame == PacedFrame(MaxLongSteps) /\ UNCHANGED <<shadow, now, probe>>

LongRender == Render /\ UNCHANGED <<shadow, now, probe>>

NextLong == LongDisplace \/ LongStart \/ LongFrame \/ LongRender

SpecLong == Init /\ [][NextLong]_vars

(***************************************************************************)
(* SpecRange: runs with parameters the input form accepts                  *)
(* (validation.ts: mass 0.01..100, spring constant 0.1..1000, damping      *)
(* 0..100), entered while the run is stopped; each frame is followed by a  *)
(* render.                                                                 *)
(***************************************************************************)
\* the lightest mass on the stiffest spring, damped
StiffParameters ==
  [mass |-> FDiv(FromInt(1), FromInt(100)), springConstant |-> FromInt(1000),
   dampingCoefficient |-> FDiv(FromInt(1), FromInt(2))]

\* a unit mass on the stiffest spring, undamped: a period of 0.1987 s
StiffUndampedParameters ==
  [mass |-> FromInt(1), springConstant |-> FromInt(1000), dampingCoefficient |-> Zero]

RangeValues == {UndampedParameters, StiffParameters, StiffUndampedParameters}

\* physics steps of a run explored under SpecRange: ten periods of the
\* undamped stiff run, 10 * 2 * pi / sqrt(1000) s = 119.2 steps
MaxRangeSteps == 119

\* the form's parameters reach the hook before anything else is done
RangeChange ==
  /\ parameters = DefaultParameters
  /\ Pending = InitialState
  /\ stateQueue = <<>>
  /\ \E p \in RangeValues : Commit(p)
  /\ UNCHANGED <<shadow, now, probe>>

RangeFrame == PacedFrame(MaxRangeSteps) /\ UNCHANGED <<shadow, now, probe>>

NextRange == RangeChange \/ LongDisplace \/ LongStart \/ RangeFrame \/ LongRender

SpecRange == Init /\ [][NextRange]_vars

(***************************************************************************)
(* SpecFree: the hook rendered with a spring constant of 0, which          *)
(* useSimulation accepts as it accepts any parameters; each frame is       *)
(* followed by a render.                                                   *)
(***************************************************************************)
\* a unit mass on no spring, damped
FreeParameters ==
  [mass |-> FromInt(1), springConstant |-> Zero,
   dampingCoefficient |-> FDiv(FromInt(1), FromInt(2))]

\* physics steps of a run explored under SpecFree
MaxFreeSteps == 40

\* the hook is rendered with the free parameters before anything else is done
FreeChange ==
  /\ parameters = DefaultParameters
  /\ Pending = InitialState
  /\ stateQueue = <<>>
  /\ Commit(FreeParameters)
  /\ UNCHANGED <<shadow, now, probe>>

FreeFrame == PacedFrame(MaxFreeSteps) /\ UNCHANGED <<shadow, now, probe>>

NextFree == FreeChange \/ LongDisplace \/ LongStart \/ FreeFrame \/ LongRender

SpecFree == Init /\ [][NextFree]_vars

(***************************************************************************)
(* SpecPhysics: the library functions called directly, on arguments drawn  *)
(* from values that reach every branch: ordinary and very large numbers,   *)
(* zero, negative numbers, Infinity and NaN.  The hook stays in its        *)
(* initial state; probe holds the arguments, the function called and what  *)
(* it returned.                                                            *)
(***************************************************************************)
\* 2^n as a JavaScript number
Pow2(n) == Range(1, n - 52, BShl(<<1>>, 52))

PositionValues ==
  {Zero, FDiv(FromInt(1), FromInt(2)), FNeg(Pow2(1000)), Infinity(1), NaN}

VelocityValues == {Zero, FromInt(-1), Pow2(1000), Pow2(1023), Infinity(-1)}

MassValues == {FromInt(1), FromInt(10), Zero, FromInt(-1), Infinity(1)}

SpringConstantValues == {FromInt(100), Pow2(40), Zero, NaN}

DampingValues ==
  {Zero, FDiv(FromInt(1), FromInt(2)), Pow2(12), Pow2(20), FromInt(-1), NaN}

\* the arguments of a call not yet made
Arguments(position, velocity, mass, springConstant, dampingCoefficient) ==
  [fn |-> "none", position |-> position, velocity |-> velocity,
   parameters |-> [mass |-> mass, springConstant |-> springConstant,
                   dampingCoefficient |-> dampingCoefficient]]

\* the call, made
Returns(fn, result) ==
  [fn |-> fn, position |-> probe.position, velocity |-> probe.velocity,
   parameters |-> probe.parameters, result |-> result]

\* the hook's own variables
hook ==
  <<parameters, state, stateQueue, stateRef, timeSeriesData, dataQueue, rafIdRef, rafs,
    lastDataUpdateRef, lastFrameTimeRef, now, shadow>>

InitPhysics ==
  /\ parameters = DefaultParameters
  /\ state = InitialState
  /\ stateQueue = <<>>
  /\ stateRef = InitialState
  /\ timeSeriesData = EmptyData
  /\ dataQueue = <<>>
  /\ rafIdRef = 0
  /\ rafs = {}
  /\ lastDataUpdateRef = Zero
  /\ lastFrameTimeRef = 0
  /\ now = 0
  /\ shadow = InitialRun
  /\ \E x \in PositionValues, v \in VelocityValues, m \in MassValues,
        k \in SpringConstantValues, c \in DampingValues :
       probe = Arguments(x, v, m, k, c)

ProbeSpringForce ==
  /\ probe.fn = "none"
  /\ probe' = Returns("computeSpringForce",
                      computeSpringForce(probe.position, probe.parameters.springConstant))
  /\ UNCHANGED hook

ProbeDampingForce ==
  /\ probe.fn = "none"
  /\ probe' = Returns("computeDampingForce",
                      computeDampingForce(probe.velocity,
                                          probe.parameters.dampingCoefficient))
  /\ UNCHANGED hook

\* the force is one of the position values
ProbeAcceleration ==
  /\ probe.fn = "none"
  /\ probe' = Returns("computeAcceleration",
                      computeAcceleration(probe.position, probe.parameters.mass))
  /\ UNCHANGED hook

ProbeTotalEnergy ==
  /\ probe.fn = "none"
  /\ probe' = Returns("computeTotalEnergy",
                      computeTotalEnergy(probe.parameters.mass, probe.velocity,
                                         probe.parameters.springConstant, probe.position))
  /\ UNCHANGED hook

ProbeRk4Step ==
  /\ probe.fn = "none"
  /\ probe' = Returns("rk4Step",
                      rk4Step([position |-> probe.position, velocity |-> probe.velocity],
                              TIMESTEP, Closure(probe.parameters)))
  /\ UNCHANGED hook

ProbeNextState ==
  /\ probe.fn = "none"
  /\ probe' = Returns("computeNextState",
                      computeNextState(probe.parameters, probe, TIMESTEP))
  /\ UNCHANGED hook

NextPhysics ==
  \/ ProbeSpringForce
  \/ ProbeDampingForce
  \/ ProbeAcceleration
  \/ ProbeTotalEnergy
  \/ ProbeRk4Step
  \/ ProbeNextState

SpecPhysics == InitPhysics /\ [][NextPhysics]_vars

(***************************************************************************)
(* SpecHost: SpecRun on a host that delivers the frames at uneven          *)
(* intervals: each frame comes one of FrameIntervals milliseconds after    *)
(* the previous one, and pause() and resume() are called between renders.  *)
(* shadow receives the same operations and the same number of frames and   *)
(* never sees the clock.                                                   *)
(***************************************************************************)
\* the intervals of a 120 Hz and of a 30 Hz display, ms
FrameIntervals == {8, 33}

\* the clock at which a run of MaxHostSteps frames ends at the latest
MaxHostClock == MaxHostSteps * 33

HostFrame ==
  \E interval \in FrameIntervals :
    /\ now + interval <= MaxHostClock
    /\ now' = now + interval
    /\ UNCHANGED probe
    /\ PacedFrame(MaxHostSteps)
    /\ shadow' = IF stateRef.isRunning /\ ~stateRef.isPaused THEN ShadowTick(shadow)
                 ELSE shadow

\* pause() on a rendered, running run
HostPause ==
  /\ stateQueue = <<>>
  /\ state.isRunning /\ ~state.isPaused
  /\ pause
  /\ UNCHANGED <<shadow, now, probe>>

\* resume() on a rendered, paused run
HostResume ==
  /\ stateQueue = <<>>
  /\ state.isRunning /\ state.isPaused
  /\ resume
  /\ UNCHANGED <<shadow, now, probe>>

NextHost == RunDisplace \/ RunStart \/ HostPause \/ HostResume \/ HostFrame \/ RunRender

SpecHost == Init /\ [][NextHost]_vars

(***************************************************************************)
(* SpecParameters: Spec, on a host that may also render the component with *)
(* other parameters at any time.                                           *)
(***************************************************************************)
ParameterFrame == \E id \in rafs : Room /\ WithinSteps(MaxParameterSteps) /\ animate(id)

NextParameters ==
  \/ (\E x \in DisplacementValues : setInitialDisplacement(x)) /\ UNCHANGED <<shadow, now, probe>>
  \/ start /\ UNCHANGED <<shadow, now, probe>>
  \/ pause /\ UNCHANGED <<shadow, now, probe>>
  \/ resume /\ UNCHANGED <<shadow, now, probe>>
  \/ reset /\ UNCHANGED <<shadow, now, probe>>
  \/ ParameterFrame /\ UNCHANGED <<shadow, now, probe>>
  \/ Render /\ UNCHANGED <<shadow, now, probe>>
  \/ ParametersChange /\ UNCHANGED <<shadow, now, probe>>

SpecParameters == Init /\ [][NextParameters]_vars

(***************************************************************************)
(* SpecFailure: Spec, with shadow.failed recording that a frame's physics  *)
(* step has thrown since the last reset().                                 *)
(***************************************************************************)
\* this step is a frame whose physics step threw
FrameFailed ==
  /\ stateRef.isRunning /\ ~stateRef.isPaused
  /\ UNCHANGED <<state, stateRef>>
  /\ rafs' # rafs
  /\ Len(stateQueue') > Len(stateQueue)
  /\ stateQueue'[Len(stateQueue')] = PauseUpdate

FailureFrame ==
  /\ Frame
  /\ shadow' = [shadow EXCEPT !.failed = @ \/ FrameFailed]
  /\ UNCHANGED <<now, probe>>

FailureReset == reset /\ shadow' = [shadow EXCEPT !.failed = FALSE] /\ UNCHANGED <<now, probe>>

NextFailure ==
  \/ (\E x \in DisplacementValues : setInitialDisplacement(x)) /\ UNCHANGED <<shadow, now, probe>>
  \/ start /\ UNCHANGED <<shadow, now, probe>>
  \/ pause /\ UNCHANGED <<shadow, now, probe>>
  \/ resume /\ UNCHANGED <<shadow, now, probe>>
  \/ FailureReset
  \/ FailureFrame
  \/ Render /\ UNCHANGED <<shadow, now, probe>>

SpecFailure == Init /\ [][NextFailure]_vars

(***************************************************************************)
(* SpecRestart: a caller that calls start() again on the running run each  *)
(* time a sample has been taken, so that every frame finds the sampling    *)
(* clock at 0.  During the first MaxStaleSteps steps the host may run      *)
(* frames before React has rendered; afterwards it renders first.          *)
(***************************************************************************)
RestartStart ==
  /\ lastDataUpdateRef # Zero \/ ~Pending.isRunning
  /\ Len(stateQueue) < MaxRestartPending
  /\ start
  /\ UNCHANGED <<shadow, now, probe>>

RestartFrame ==
  /\ lastDataUpdateRef = Zero
  /\ Len(stateQueue) < MaxRestartPending
  /\ stateQueue = <<>> \/ WithinSteps(MaxStaleSteps)
  /\ \E id \in rafs : WithinSteps(MaxRestartSteps) /\ animate(id)
  /\ UNCHANGED <<shadow, now, probe>>

RestartRender == Render /\ UNCHANGED <<shadow, now, probe>>

NextRestart == RestartStart \/ RestartFrame \/ RestartRender

SpecRestart == Init /\ [][NextRestart]_vars

(***************************************************************************)
(* Properties.  The state an operation "yields" is the one the next render *)
(* commits: Pending and PendingData.                                       *)
(***************************************************************************)
Last(queue) == queue[Len(queue)]

\* Pending and PendingData once the step is taken
PendingAfter == ApplyAll(state', stateQueue')

PendingDataAfter == ApplyAllData(timeSeriesData', dataQueue')

\* this step ran a frame that performed a physics step: animate handed a new
\* running state to setState
StepTaken ==
  /\ Len(stateQueue') > Len(stateQueue)
  /\ stateQueue'[Len(stateQueue) + 1].kind = "set"
  /\ stateQueue'[Len(stateQueue) + 1].arg.isRunning

\* the state that frame handed to setState
StepOutput == stateQueue'[Len(stateQueue) + 1].arg

\* C1: whatever the state, reset() yields position, velocity, acceleration and
\* elapsed time 0, run mode Stopped and four empty series; a second reset()
\* yields the same again.
C1_ResetYieldsInitialState ==
  [][reset => PendingAfter = InitialState /\ PendingDataAfter = EmptyData]_vars

\* reset() has just been called on a running run with a moved mass, elapsed
\* time and buffered samples
C1_Witness ==
  /\ stateQueue # <<>>
  /\ Last(stateQueue) = SetTo(InitialState)
  /\ dataQueue # <<>>
  /\ Last(dataQueue) = ClearPoints
  /\ state.isRunning /\ ~state.isPaused
  /\ state.position # Zero
  /\ state.time # Zero
  /\ timeSeriesData.displacement # <<>>

\* C2: once the run is Paused, and until resume(), start() or reset(), no
\* physics step is performed: run mode stays Paused, elapsed time and the
\* series stay as they were, position and velocity change only by
\* setInitialDisplacement.
C2_PauseFreezes ==
  [][(Pending.isRunning /\ Pending.isPaused /\ ~resume /\ ~start /\ ~reset)
       => /\ PendingAfter.isRunning /\ PendingAfter.isPaused
          /\ ~StepTaken
          /\ PendingAfter.time = Pending.time
          /\ PendingDataAfter = PendingData
          /\ \/ PendingAfter.position = Pending.position /\ PendingAfter.velocity = Pending.velocity
             \/ \E x \in DisplacementValues : setInitialDisplacement(x)]_vars

\* C3: a Stopped run is zeroed and has no frame requested, and until start()
\* it stays Stopped and no frame performs a physics step; so after reset() on
\* a running run the frame that was requested never runs a step.
C3_ResetStopsFrames ==
  /\ [](~Pending.isRunning =>
          /\ Pending.time = Zero /\ Pending.velocity = Zero
          /\ PendingData = EmptyData
          /\ rafs = {})
  /\ [][(~Pending.isRunning /\ ~start) => (~PendingAfter.isRunning /\ ~StepTaken)]_vars

\* reset() has just been called on a running run that had a frame requested,
\* and React has not rendered yet
C3_Witness ==
  /\ stateQueue # <<>>
  /\ Last(stateQueue) = SetTo(InitialState)
  /\ stateRef.isRunning /\ ~stateRef.isPaused
  /\ stateRef.time # Zero
  /\ rafs = {} /\ rafIdRef = 0

\* C4: a run with pause() and resume() in it has the same position, velocity,
\* acceleration, elapsed time and series as the run with the same frames and
\* no pause.
C4_PauseResumeIdentity ==
  /\ Pending.position = shadow.position
  /\ Pending.velocity = shadow.velocity
  /\ Pending.acceleration = shadow.acceleration
  /\ Pending.time = shadow.time
  /\ PendingData = shadow.data

\* the run was paused after it had advanced, was resumed, and has sampled a
\* moving mass before the pause and after the resume
C4_Witness ==
  /\ FLt(Zero, shadow.resumedAt)
  /\ Len(timeSeriesData.displacement) >= 2
  /\ FLt(timeSeriesData.displacement[1].time, shadow.resumedAt)
  /\ FLt(shadow.resumedAt, Last(timeSeriesData.displacement).time)
  /\ Last(timeSeriesData.displacement).value # Zero

\* C5: the first physics step after setInitialDisplacement(x) integrates from
\* position x and velocity 0.
C5_DisplacementNeverLost ==
  [][(StepTaken /\ stateQueue # <<>> /\ Last(stateQueue).kind = "displace")
       => LET from == [position |-> Last(stateQueue).arg, velocity |-> Zero]
              next == computeNextState(parameters, from, TIMESTEP)
          IN  /\ next.ok
              /\ StepOutput.position = next.position
              /\ StepOutput.velocity = next.velocity]_vars

\* C6: in every run mode setInitialDisplacement(x) sets position x, velocity 0
\* and acceleration 0 and leaves elapsed time, run mode and the series as
\* they are.
C6_DisplacementFrame ==
  [][\A x \in DisplacementValues :
       setInitialDisplacement(x) =>
         /\ PendingAfter = [Pending EXCEPT !.position = x, !.velocity = Zero,
                                       !.acceleration = Zero]
         /\ PendingDataAfter = PendingData]_vars

\* the mass of a running run that has advanced and moves has just been
\* displaced
C6_Witness ==
  /\ stateQueue # <<>>
  /\ Last(stateQueue).kind = "displace"
  /\ state.isRunning /\ ~state.isPaused
  /\ state.time # Zero
  /\ state.velocity # Zero
  /\ Pending.velocity = Zero
  /\ Pending.time = state.time

\* C7: when the physics step throws in a frame of a running run, the run
\* becomes Paused, position, velocity, acceleration and elapsed time stay as
\* they were, no sample is appended and no frame is requested.  (The first
\* three conjuncts are implied by animate(id): a frame leaves state and
\* stateRef alone and consumes its handle.)
C7_ErrorPauses ==
  [][(/\ stateRef.isRunning /\ ~stateRef.isPaused
      /\ UNCHANGED <<state, stateRef>>
      /\ <<rafs, rafIdRef>>' # <<rafs, rafIdRef>>
      /\ ~computeNextState(parameters, stateRef, TIMESTEP).ok
      /\ \E id \in rafs : animate(id))
       => /\ PendingAfter.isRunning /\ PendingAfter.isPaused
          /\ PendingAfter.position = Pending.position
          /\ PendingAfter.velocity = Pending.velocity
          /\ PendingAfter.acceleration = Pending.acceleration
          /\ PendingAfter.time = Pending.time
          /\ PendingDataAfter = PendingData
          /\ rafs' = {}]_vars

\* a frame of a running run with a non-finite position has just run: the
\* pause is queued and no frame is requested
C7_Witness ==
  /\ stateQueue # <<>>
  /\ Last(stateQueue) = PauseUpdate
  /\ stateRef.isRunning /\ ~stateRef.isPaused
  /\ ~IsFinite(stateRef.position)
  /\ rafs = {}

\* C8: a frame that performs a physics step applies computeNextState once,
\* with TIMESTEP, to the state the previous step or setInitialDisplacement
\* left, and elapsed time grows by TIMESTEP.
C8_OneStepPerTick ==
  [][StepTaken
       => LET next == computeNextState(parameters, Pending, TIMESTEP)
          IN  /\ next.ok
              /\ StepOutput.position = next.position
              /\ StepOutput.velocity = next.velocity
              /\ StepOutput.time = FAdd(Pending.time, TIMESTEP)]_vars

\* the time n physics steps after time t
RECURSIVE StepsAfter(_, _)
StepsAfter(t, n) == IF n = 0 THEN t ELSE StepsAfter(FAdd(t, TIMESTEP), n - 1)

\* physics steps in GRAPH_UPDATE_INTERVAL ms at 60 steps per second
StepsPerSample == (GRAPH_UPDATE_INTERVAL * 60) \div 1000

\* C9: a frame that performs a physics step appends a sample, stamped with
\* the new elapsed time, and records that time as the last sample time,
\* exactly when 6 physics steps have elapsed since the last sample time.
C9_SamplesAt10Hz ==
  [][StepTaken
       => IF FGe(StepOutput.time, StepsAfter(lastDataUpdateRef, StepsPerSample))
          THEN /\ Len(dataQueue') = Len(dataQueue) + 1
               /\ Last(dataQueue').kind = "add"
               /\ Last(dataQueue').time = StepOutput.time
               /\ lastDataUpdateRef' = StepOutput.time
          ELSE /\ dataQueue' = dataQueue
               /\ lastDataUpdateRef' = lastDataUpdateRef]_vars

\* every sample of the series is no older than 15 s before the latest one
WithinWindow(series) ==
  \/ series = <<>>
  \/ LET cutoff == FSub(Last(series).time, FromInt(GRAPH_WINDOW_DURATION))
     IN  \A i \in 1..Len(series) : FGe(series[i].time, cutoff)

\* C10: in every channel every retained sample, the oldest included, has
\* time >= latest time - 15 s.
C10_BufferWindow ==
  /\ WithinWindow(PendingData.displacement)
  /\ WithinWindow(PendingData.velocity)
  /\ WithinWindow(PendingData.acceleration)
  /\ WithinWindow(PendingData.totalEnergy)

\* the run is beyond 15 s and the samples of its first half second have been
\* evicted
C10_Witness ==
  /\ timeSeriesData.displacement # <<>>
  /\ FLt(FromInt(GRAPH_WINDOW_DURATION), Last(timeSeriesData.displacement).time)
  /\ FLt(FDiv(FromInt(1), FromInt(2)), timeSeriesData.displacement[1].time)
  /\ Last(timeSeriesData.displacement).value # Zero

\* the samples a 15 s window holds at one sample per 100 ms, plus the one on
\* the boundary
MaxSamples == (GRAPH_WINDOW_DURATION * 1000) \div GRAPH_UPDATE_INTERVAL + 1

\* C11: after any sequence of start, pause, resume, setInitialDisplacement and
\* frames, each of the four series holds at most about 150 samples.
C11_BufferSize ==
  /\ Len(PendingData.displacement) <= MaxSamples
  /\ Len(PendingData.velocity) <= MaxSamples
  /\ Len(PendingData.acceleration) <= MaxSamples
  /\ Len(PendingData.totalEnergy) <= MaxSamples

\* the samples of a series are in strictly increasing order of time
Increasing(series) ==
  \A i \in 1..(Len(series) - 1) : FLt(series[i].time, series[i + 1].time)

\* C12: in every series the samples are strictly increasing in time: no sample
\* is appended with a time equal to or below that of the last one.
C12_StrictlyIncreasing ==
  /\ Increasing(PendingData.displacement)
  /\ Increasing(PendingData.velocity)
  /\ Increasing(PendingData.acceleration)
  /\ Increasing(PendingData.totalEnergy)

\* C13: isPaused is set only while isRunning is set: no sequence of
\* operations and frames, a failing frame included, reaches isRunning = false
\* with isPaused = true.
C13_PausedOnlyWhenRunning ==
  /\ state.isPaused => state.isRunning
  /\ Pending.isPaused => Pending.isRunning

\* C14: elapsed time never decreases across a step other than reset(): a
\* frame that performs a physics step sets it one timestep above the time it
\* read and never below what was pending; start, pause, resume and
\* setInitialDisplacement leave it unchanged.
C14_ElapsedTimeMonotone ==
  [][/\ ~reset => FLe(Pending.time, PendingAfter.time)
     /\ (start \/ pause \/ resume \/ \E x \in DisplacementValues : setInitialDisplacement(x))
          => PendingAfter.time = Pending.time
     /\ StepTaken => /\ StepOutput.time = FAdd(stateRef.time, TIMESTEP)
                     /\ FLt(stateRef.time, StepOutput.time)]_vars

\* a frame has just advanced the elapsed time of a run that had already
\* advanced
C14_Witness ==
  /\ stateQueue # <<>>
  /\ Last(stateQueue).kind = "set"
  /\ state.isRunning /\ ~state.isPaused
  /\ state.time # Zero
  /\ FLt(state.time, Pending.time)

C16_RunningHasFrame ==
  (stateQueue = <<>> /\ state.isRunning /\ ~state.isPaused) => rafs # {}

\* C17: once a frame has failed and paused the run, no physics step is
\* performed and the run does not return to Running until reset() is called.
C17_PausedUntilReset ==
  [][(shadow.failed /\ Pending.isRunning /\ Pending.isPaused /\ ~reset)
       => (PendingAfter.isPaused /\ ~StepTaken)]_vars

\* useSimulation: the values among those returned that depend on the run
Returned(simulationState, series) == [state |-> simulationState, timeSeriesData |-> series]

\* C18: a pause caused by a failed physics step is reported upward: what the
\* hook returns after it differs from what it returns after pause() called
\* in the same state.
C18_FailureReported ==
  [][FrameFailed => Returned(PendingAfter, PendingDataAfter)
                      # Returned(ApplyUpdate(Pending, PauseUpdate), PendingData)]_vars

\* C19: in every reachable state at most one animation frame is requested,
\* and it is the one whose handle rafIdRef holds, whatever the sequence of
\* start, pause, resume, reset, renders with other parameters and frames.
C19_OneFrame ==
  /\ Cardinality(rafs) <= 1
  /\ rafs \subseteq {rafIdRef}

\* the parameters changed under a run that had advanced, the RAF effect ran
\* again, and a frame is requested
C19_Witness ==
  /\ parameters # DefaultParameters
  /\ state.isRunning /\ ~state.isPaused
  /\ state.time # Zero
  /\ stateQueue = <<>>
  /\ rafs # {}

C21_ParametersFixedWhileRunning ==
  [][(state.isRunning /\ Pending.isRunning) => parameters' = parameters]_vars

\* C22: a change of parameters that arrives while isRunning is false resets
\* the state: position, velocity, acceleration and elapsed time are 0 after
\* it, so a displacement set under the old parameters does not survive.
C22_ParametersChangeResets ==
  [][(~state.isRunning /\ ~Pending.isRunning /\ parameters' # parameters)
       => /\ state'.position = Zero
          /\ state'.velocity = Zero
          /\ state'.acceleration = Zero
          /\ state'.time = Zero]_vars

(***************************************************************************)
(* Properties of the physics library, stated on the call recorded in probe *)
(* (SpecPhysics).                                                          *)
(***************************************************************************)
\* a slope (dx, dv) that holds a non-finite number, or whose evaluation threw
NonFiniteSlope(dx, dv) == ~IsFinite(dx) \/ ~IsFinite(dv)

\* The first thing that is non-finite in a step from (x, v): 0 the arguments,
\* 1..4 the slope of that number, 5 the new position or velocity, 6 nothing.
FirstNonFinite5(x, v, dt, dx, dv) ==
  IF ~IsFinite(FAdd(x, FMul(dx, dt))) \/ ~IsFinite(FAdd(v, FMul(dv, dt))) THEN 5 ELSE 6

FirstNonFinite4(x, v, dt, k1_dx, k1_dv, k2_dx, k2_dv, k3_dx, k3_dv, k4_dx, k4_dv) ==
  IF NonFiniteSlope(k4_dx, k4_dv) THEN 4
  ELSE FirstNonFinite5(x, v, dt,
         FDiv(FAdd(FAdd(FAdd(k1_dx, FMul(FromInt(2), k2_dx)), FMul(FromInt(2), k3_dx)),
                   k4_dx), FromInt(6)),
         FDiv(FAdd(FAdd(FAdd(k1_dv, FMul(FromInt(2), k2_dv)), FMul(FromInt(2), k3_dv)),
                   k4_dv), FromInt(6)))

FirstNonFinite3(x, v, dt, k1_dx, k1_dv, k2_dx, k2_dv, k3_dx, k3_dv, f) ==
  IF NonFiniteSlope(k3_dx, k3_dv) THEN 3
  ELSE FirstNonFinite4(x, v, dt, k1_dx, k1_dv, k2_dx, k2_dv, k3_dx, k3_dv,
         FAdd(v, FMul(k3_dv, dt)),
         Call(f, FAdd(x, FMul(k3_dx, dt)), FAdd(v, FMul(k3_dv, dt))))

FirstNonFinite2(x, v, dt, k1_dx, k1_dv, k2_dx, k2_dv, f) ==
  IF NonFiniteSlope(k2_dx, k2_dv) THEN 2
  ELSE FirstNonFinite3(x, v, dt, k1_dx, k1_dv, k2_dx, k2_dv,
         FAdd(v, FDiv(FMul(k2_dv, dt), FromInt(2))),
         Call(f, FAdd(x, FDiv(FMul(k2_dx, dt), FromInt(2))),
              FAdd(v, FDiv(FMul(k2_dv, dt), FromInt(2)))), f)

FirstNonFinite1(x, v, dt, k1_dx, k1_dv, f) ==
  IF NonFiniteSlope(k1_dx, k1_dv) THEN 1
  ELSE FirstNonFinite2(x, v, dt, k1_dx, k1_dv,
         FAdd(v, FDiv(FMul(k1_dv, dt), FromInt(2))),
         Call(f, FAdd(x, FDiv(FMul(k1_dx, dt), FromInt(2))),
              FAdd(v, FDiv(FMul(k1_dv, dt), FromInt(2)))), f)

FirstNonFinite(x, v, dt, f) ==
  IF ~IsFinite(x) \/ ~IsFinite(v) \/ ~IsFinite(dt) THEN 0
  ELSE FirstNonFinite1(x, v, dt, v, Call(f, x, v), f)

\* what a recorded rk4Step call has to have done when the first non-finite
\* value is the one numbered stage
FailsAtOnce(result, stage) ==
  /\ result.ok <=> stage = 6
  /\ result.ok => IsFinite(result.position) /\ IsFinite(result.velocity)
  /\ ~result.ok => result.calls = IF stage = 5 THEN 4 ELSE stage

C24_ForceModelExactOrFails ==
  /\ probe.fn = "computeSpringForce"
       => IF ~IsFinite(probe.position) \/ ~IsFinite(probe.parameters.springConstant)
          THEN IsThrown(probe.result)
          ELSE probe.result = FMul(FNeg(probe.parameters.springConstant), probe.position)
  /\ probe.fn = "computeDampingForce"
       => IF \/ ~IsFinite(probe.velocity)
             \/ ~IsFinite(probe.parameters.dampingCoefficient)
             \/ FLt(probe.parameters.dampingCoefficient, Zero)
          THEN IsThrown(probe.result)
          ELSE probe.result = FMul(FNeg(probe.parameters.dampingCoefficient), probe.velocity)
  /\ probe.fn = "computeAcceleration"
       => IF \/ ~IsFinite(probe.position)
             \/ ~IsFinite(probe.parameters.mass)
             \/ FLe(probe.parameters.mass, Zero)
          THEN IsThrown(probe.result)
          ELSE probe.result = FDiv(probe.position, probe.parameters.mass)

\* the damping force called with a finite velocity and a negative coefficient:
\* it has failed
C24_Witness ==
  /\ probe.fn = "computeDampingForce"
  /\ IsFinite(probe.velocity)
  /\ FLt(probe.parameters.dampingCoefficient, Zero)
  /\ IsThrown(probe.result)

\* arguments computeTotalEnergy accepts: finite numbers, mass and spring
\* constant positive
ValidEnergyInput(mass, velocity, springConstant, displacement) ==
  /\ IsFinite(mass) /\ IsFinite(velocity)
  /\ IsFinite(springConstant) /\ IsFinite(displacement)
  /\ FLt(Zero, mass)
  /\ FLt(Zero, springConstant)

NonIncreasing(series) ==
  \A i \in 1..(Len(series) - 1) : FLe(series[i + 1].value, series[i].value)

\* C25: in a damped run (dampingCoefficient > 0) with no displacement set
\* after the initial one, the sampled total energy never rises: each value of
\* the totalEnergy series is <= the value sampled before it.
C25_DampedEnergyNonIncreasing ==
  FLt(Zero, parameters.dampingCoefficient) => NonIncreasing(timeSeriesData.totalEnergy)

\* the largest value of a non-empty series
Largest(series) ==
  series[CHOOSE i \in 1..Len(series) :
           \A j \in 1..Len(series) : FLe(series[j].value, series[i].value)].value

\* every value of the series is within 1% of the largest below the largest
WithinOnePercent(series, largest) ==
  \A j \in 1..Len(series) :
    FLe(FMul(FromInt(100), FSub(largest, series[j].value)), largest)

\* C26: in an undamped run (dampingCoefficient = 0) with no displacement set
\* after the initial one, the total energy over ten periods varies by at most
\* 1% of its mean: the energies sampled within the first ten periods lie
\* within 1% of the largest of them (the mean is at most the largest).
C26_UndampedEnergyConserved ==
  (parameters.dampingCoefficient = Zero /\ timeSeriesData.totalEnergy # <<>>)
    => WithinOnePercent(timeSeriesData.totalEnergy, Largest(timeSeriesData.totalEnergy))

\* two series with the same length and the same timestamps
SameTimes(a, b) ==
  /\ Len(a) = Len(b)
  /\ \A i \in 1..Len(a) : a[i].time = b[i].time

\* C28: in every rendered state the displacement, velocity, acceleration
\* and totalEnergy series have the same length and the same timestamps: an
\* append adds one sample with one time to all four and evicts the same
\* prefix from all four, and a clear empties all four.
C28_SeriesAligned ==
  /\ SameTimes(timeSeriesData.displacement, timeSeriesData.velocity)
  /\ SameTimes(timeSeriesData.displacement, timeSeriesData.acceleration)
  /\ SameTimes(timeSeriesData.displacement, timeSeriesData.totalEnergy)

\* a window from which samples have been evicted: it holds 100 samples or
\* more and its oldest sample is later than 0.5 s
C28_Witness ==
  /\ Len(timeSeriesData.acceleration) >= 100
  /\ FLt(FDiv(FromInt(1), FromInt(2)), timeSeriesData.acceleration[1].time)

C30_RestStaysAtRest ==
  [][(StepTaken /\ stateRef.position = Zero /\ stateRef.velocity = Zero)
       => /\ StepOutput.position = Zero
          /\ StepOutput.velocity = Zero
          /\ StepOutput.acceleration = Zero
          /\ StepOutput.time = FAdd(stateRef.time, TIMESTEP)
          /\ Len(dataQueue') > Len(dataQueue)
               => /\ Last(dataQueue').displacement = Zero
                  /\ Last(dataQueue').velocity = Zero
                  /\ Last(dataQueue').acceleration = Zero
                  /\ Last(dataQueue').totalEnergy = Zero]_vars

\* a run from the reset state, more than 10 s and 100 samples on: the mass
\* is at rest at the equilibrium and the last energy sampled is 0
C30_Witness ==
  /\ state.isRunning
  /\ FLt(FromInt(10), state.time)
  /\ state.position = Zero /\ state.velocity = Zero /\ state.acceleration = Zero
  /\ Len(timeSeriesData.totalEnergy) >= 100
  /\ \A i \in 1..Len(timeSeriesData.totalEnergy) :
       /\ timeSeriesData.totalEnergy[i].value = Zero
       /\ timeSeriesData.displacement[i].value = Zero

\* The classical RK4 update of (x, v) under dx/dt = v, dv/dt = f(x, v): the
\* slopes k1 at (x, v), k2 at (x + k1x*dt/2, v + k1v*dt/2), k3 at
\* (x + k2x*dt/2, v + k2v*dt/2), k4 at (x + k3x*dt, v + k3v*dt), and the new
\* state x + (k1x + 2*k2x + 2*k3x + k4x)/6 * dt, likewise for v.
Classical4(x, v, dt, k1x, k1v, k2x, k2v, k3x, k3v, k4x, k4v) ==
  [position |->
     FAdd(x, FMul(FDiv(FAdd(FAdd(FAdd(k1x, FMul(FromInt(2), k2x)),
                                 FMul(FromInt(2), k3x)), k4x), FromInt(6)), dt)),
   velocity |->
     FAdd(v, FMul(FDiv(FAdd(FAdd(FAdd(k1v, FMul(FromInt(2), k2v)),
                                 FMul(FromInt(2), k3v)), k4v), FromInt(6)), dt))]

Classical3(x, v, dt, k1x, k1v, k2x, k2v, k3x, k3v, f) ==
  Classical4(x, v, dt, k1x, k1v, k2x, k2v, k3x, k3v,
             FAdd(v, FMul(k3v, dt)),
             Call(f, FAdd(x, FMul(k3x, dt)), FAdd(v, FMul(k3v, dt))))

Classical2(x, v, dt, k1x, k1v, k2x, k2v, f) ==
  Classical3(x, v, dt, k1x, k1v, k2x, k2v,
             FAdd(v, FDiv(FMul(k2v, dt), FromInt(2))),
             Call(f, FAdd(x, FDiv(FMul(k2x, dt), FromInt(2))),
                  FAdd(v, FDiv(FMul(k2v, dt), FromInt(2)))), f)

Classical1(x, v, dt, k1x, k1v, f) ==
  Classical2(x, v, dt, k1x, k1v,
             FAdd(v, FDiv(FMul(k1v, dt), FromInt(2))),
             Call(f, FAdd(x, FDiv(FMul(k1x, dt), FromInt(2))),
                  FAdd(v, FDiv(FMul(k1v, dt), FromInt(2)))), f)

ClassicalRk4(x, v, dt, f) == Classical1(x, v, dt, v, Call(f, x, v), f)

\* C31: a step that returns has evaluated the acceleration function exactly
\* four times and returns the classical RK4 update of the state it was given:
\* the slopes taken at (x, v), the two midpoints and the endpoint, weighted
\* 1, 2, 2, 1 and divided by 6.
C31_ClassicalRk4 ==
  (probe.fn = "rk4Step" /\ probe.result.ok)
    => /\ probe.result.calls = 4
       /\ [position |-> probe.result.position, velocity |-> probe.result.velocity]
            = ClassicalRk4(probe.position, probe.velocity, TIMESTEP,
                           Closure(probe.parameters))

\* a step from a displaced, moving mass under a damped spring has returned
C31_Witness ==
  /\ probe.fn = "rk4Step"
  /\ probe.result.ok
  /\ probe.position.c = "num" /\ probe.velocity.c = "num"
  /\ probe.parameters.dampingCoefficient.c = "num"
  /\ probe.result.position # probe.position
  /\ probe.result.velocity # probe.velocity

(***************************************************************************)
(* Properties of the run modes.                                            *)
(***************************************************************************)
\* C32: whenever the run is Stopped (isRunning false) the elapsed time is 0
\* and the four series are empty; only the position may differ from the
\* initial state.
C32_StoppedIsPristine ==
  ~state.isRunning
    => /\ state.time = Zero
       /\ state.velocity = Zero
       /\ state.acceleration = Zero
       /\ timeSeriesData = EmptyData

\* a run that had been sampled has been reset and the mass displaced again
C32_Witness ==
  /\ ~state.isRunning
  /\ lastDataUpdateRef # Zero
  /\ state.position # Zero
  /\ timeSeriesData = EmptyData

\* consecutive samples of the series are GRAPH_UPDATE_INTERVAL ms apart or more
Spaced(series) ==
  \A i \in 1..(Len(series) - 1) :
    FGe(FMul(FSub(series[i + 1].time, series[i].time), FromInt(1000)),
        FromInt(GRAPH_UPDATE_INTERVAL))

\* C33: start() on a run that is already Running changes nothing a consumer
\* can see: the samples keep the cadence they have in a run where start() is
\* called once, consecutive timestamps GRAPH_UPDATE_INTERVAL ms apart or
\* more, and are not made denser.
C33_StartWhileRunningKeepsCadence == Spaced(timeSeriesData.displacement)

\* C34: a frame is all or nothing: one that hands a new physics state to
\* setState does nothing else to the state and leaves the run Running; no
\* frame both advances the state and pauses the run on an error raised later
\* in the same frame.
C34_TickAllOrNothing ==
  [][StepTaken
       => /\ Len(stateQueue') = Len(stateQueue) + 1
          /\ PendingAfter.isRunning
          /\ ~PendingAfter.isPaused]_vars

(***************************************************************************)
(* Properties of the buffered samples.                                     *)
(***************************************************************************)
\* t is an elapsed time a run can show: TIMESTEP accumulated from the elapsed
\* time from, one step or more
RECURSIVE ReachedFrom(_, _)
ReachedFrom(t, from) ==
  LET next == FAdd(from, TIMESTEP)
  IN  IF next = t THEN TRUE
      ELSE IF FLt(next, t) THEN ReachedFrom(t, next)
      ELSE FALSE

\* the timestamps of a series are elapsed times of the run, none later than
\* the elapsed time t
TimesOfRun(series, t) ==
  \A i \in 1..Len(series) : FLe(series[i].time, t) /\ ReachedFrom(series[i].time, Zero)

\* every buffered sample is stamped with an elapsed time of the run that is
\* not later than the current one
SampleTimesOfRun ==
  /\ TimesOfRun(PendingData.displacement, Pending.time)
  /\ TimesOfRun(PendingData.velocity, Pending.time)
  /\ TimesOfRun(PendingData.acceleration, Pending.time)
  /\ TimesOfRun(PendingData.totalEnergy, Pending.time)

\* the newest buffered sample is the one lastDataUpdateRef records
MarkerIsNewest ==
  Len(PendingData.displacement) > 0
    => Last(PendingData.displacement).time = lastDataUpdateRef

\* this step ran a frame that called addDataPoint
SampleTaken ==
  /\ Len(dataQueue') = Len(dataQueue) + 1
  /\ Last(dataQueue').kind = "add"

\* the sample a frame takes holds the time, position, velocity and energy of
\* the state the same frame hands to setState
SampleIsSnapshot ==
  SampleTaken
    => /\ StepTaken
       /\ Last(dataQueue').time = StepOutput.time
       /\ Last(PendingDataAfter.displacement) =
            [time |-> StepOutput.time, value |-> StepOutput.position]
       /\ Last(PendingDataAfter.velocity) =
            [time |-> StepOutput.time, value |-> StepOutput.velocity]
       /\ Last(PendingDataAfter.totalEnergy) =
            [time |-> StepOutput.time,
             value |-> computeEnergy(parameters, StepOutput.position, StepOutput.velocity)]

\* C35: every buffered sample is a faithful snapshot: its time is an elapsed
\* time of the run, a positive number of timesteps and not later than the
\* current elapsed time; its values are the position, the velocity and the
\* total energy of the state of that time; and the newest sample's time is
\* the last sample time the hook records.
C35_SamplesAreSnapshots ==
  /\ [](SampleTimesOfRun /\ MarkerIsNewest)
  /\ [][SampleIsSnapshot]_vars

(***************************************************************************)
(* Properties of resume().                                                 *)
(***************************************************************************)
\* this step is the render of a batch of state updates
Rendered == stateQueue # <<>> /\ stateQueue' = <<>>

\* the render of a batch that leaves the run mode as it was requests and
\* cancels no frame, and the render of a batch that leaves the run Stopped
\* requests none
RenderKeepsFrames ==
  Rendered
    => /\ (/\ state'.isRunning = state.isRunning
           /\ state'.isPaused = state.isPaused
           /\ parameters' = parameters) => rafs' = rafs
       /\ ~state'.isRunning => rafs' \subseteq rafs

\* C36: resume() acts on a Paused run only: called on a Stopped run or on a
\* Running one it changes nothing of the state or of the series the next
\* render commits, and requests and cancels no frame, neither itself nor
\* through the render that follows.
C36_ResumeOnlyWhenPaused ==
  /\ [][(resume /\ ~(Pending.isRunning /\ Pending.isPaused))
          => /\ PendingAfter = Pending
             /\ PendingDataAfter = PendingData
             /\ rafs' = rafs]_vars
  /\ [][RenderKeepsFrames]_vars

====
